---- MODULE Spec2Model ----
(***************************************************************************)
(* Model of the catalog store of utils/db.py: the relations MEDIA, CLASS   *)
(* and JUNCTION of a SQLite database, the operations the module offers on  *)
(* them, and the filesystem its two collaborators (deleteFile, pathExist)  *)
(* act on.                                                                 *)
(*                                                                         *)
(* A path is a sequence of one-character strings, so that GROUP_CONCAT and *)
(* str.split(',') of groupByClass are modelled by what they do to the      *)
(* characters of a path.  JUNCTION is a bag of (imageID, classID) pairs,   *)
(* so that a duplicated association is a state the model can express.      *)
(***************************************************************************)
EXTENDS Integers, Sequences, FiniteSets, Bags, TLC

\* ---------------------------------------------------------------- bounds
MaxImageID == 2
MaxClassList == 2

\* ---------------------------------------------------------------- inputs
Comma == ","
PathA == <<"a">>
PathAB == <<"a", ",", "b">>
Paths == {PathA, PathAB}
Hashes == {"aa11", "bb22"}
LabelOrder == <<"cat", "dog">>
Labels == {LabelOrder[i] : i \in 1..Len(LabelOrder)}
ClassLists == UNION {[1..n -> Labels] : n \in 0..MaxClassList}
Visibility == {0, 1}
\* what a call of deleteFile may do: remove the files, leave them and
\* return (best effort), or leave them and raise
FileOutcomes == {"ok", "skipped", "error"}

VARIABLES MEDIA, CLASS, JUNCTION, fs

vars == <<MEDIA, CLASS, JUNCTION, fs>>

\* ------------------------------------------------------------- helpers
Range(s) == {s[i] : i \in 1..Len(s)}

Repeat(x, n) == [j \in 1..n |-> x]

Max(S) == CHOOSE x \in S : \A y \in S : y <= x

\* a tuple of the members of a set of paths, as a caller builds it
RECURSIVE TupleOf(_)
TupleOf(S) ==
    IF S = {} THEN <<>>
    ELSE LET p == CHOOSE x \in S : \A y \in S : Len(x) <= Len(y)
         IN  <<p>> \o TupleOf(S \ {p})

PathTuples == {TupleOf(P) : P \in SUBSET Paths}

NotCalled == [called |-> FALSE, paths |-> <<>>]
CalledWith(paths) == [called |-> TRUE, paths |-> paths]

\* ------------------------------------------------- schema (SQLite rules)
\* INTEGER PRIMARY KEY of MEDIA / CLASS: the engine assigns max(rowid)+1
lastrowid(ids) == IF ids = {} THEN 1 ELSE Max(ids) + 1

\* UNIQUE(hash) of MEDIA, switched off
uniqueHashViolated_off(M, imgHash) == FALSE

\* UNIQUE(hash) of MEDIA: a second row with a held hash is refused
uniqueHashViolated(M, imgHash) == \E m \in M : m.hash = imgHash

\* UNIQUE(class) of CLASS: a second row with a held label is refused
uniqueClassViolated(Cl, className) == \E k \in Cl : k.class = className

\* the composite key of JUNCTION: a second row with a held pair is refused
junctionKeyViolated(J, pair) == BagIn(pair, J)

\* INSERT INTO MEDIA(hash, path, hidden) VALUES(?, ?, 0)
insertMedia(M, file, imgHash) ==
    IF uniqueHashViolated(M, imgHash)
    THEN [error |-> "IntegrityError", M |-> M, lastrowid |-> 0]
    ELSE LET imageID == lastrowid({m.imageID : m \in M})
         IN  [error |-> "none", lastrowid |-> imageID,
              M |-> M \cup {[imageID |-> imageID, hash |-> imgHash,
                             path |-> file, hidden |-> 0]}]

\* INSERT INTO CLASS(class) VALUES(?)
insertClass(Cl, className) ==
    IF uniqueClassViolated(Cl, className)
    THEN [error |-> "IntegrityError", Cl |-> Cl, lastrowid |-> 0]
    ELSE LET classID == lastrowid({k.classID : k \in Cl})
         IN  [error |-> "none", lastrowid |-> classID,
              Cl |-> Cl \cup {[classID |-> classID, class |-> className]}]

\* the JUNCTION insert as a plain INSERT that adds its row in any case
insertOrIgnore_plain(J, pair) == J (+) SetToBag({pair})

\* INSERT OR IGNORE INTO JUNCTION(imageID, classID) VALUES(?, ?)
insertOrIgnore(J, pair) ==
    IF junctionKeyViolated(J, pair) THEN J ELSE J (+) SetToBag({pair})

\* ------------------------------------------------------- collaborators
pathExist(files, path) == path \in files

deleteFile(files, paths) == files \ Range(paths)

\* one call of deleteFile with its outcome: the files left and what it raises
deleteFileRun(files, paths, outcome) ==
    [fs |-> IF outcome = "ok" THEN deleteFile(files, paths) ELSE files,
     raised |-> IF outcome = "error" THEN "OSError" ELSE "none"]

\* ---------------------------------------------------------- read tier
hashExist(M, hashValue) == \E m \in M : m.hash = hashValue

\* s.split(','): the pieces of s between commas
RECURSIVE split(_)
split(s) ==
    IF \A i \in 1..Len(s) : s[i] # Comma THEN <<s>>
    ELSE LET i == CHOOSE j \in 1..Len(s) :
                      s[j] = Comma /\ \A k \in 1..(j-1) : s[k] # Comma
         IN  <<SubSeq(s, 1, i-1)>> \o split(SubSeq(s, i+1, Len(s)))

\* GROUP_CONCAT(i.path): the values of a group joined by commas
RECURSIVE GROUP_CONCAT(_)
GROUP_CONCAT(values) ==
    IF Len(values) = 1 THEN values[1]
    ELSE values[1] \o <<Comma>> \o GROUP_CONCAT(Tail(values))

\* the rows CLASS JOIN JUNCTION JOIN MEDIA WHERE hidden = ? produces for
\* one class, as the paths of the joined MEDIA rows in rowid order
RECURSIVE joinedPaths(_, _, _, _, _)
joinedPaths(M, J, classID, hidden, i) ==
    IF i >= lastrowid({m.imageID : m \in M}) THEN <<>>
    ELSE LET rows == {m \in M : m.imageID = i /\ m.hidden = hidden}
             n == IF rows = {} THEN 0 ELSE CopiesIn(<<i, classID>>, J)
             here == IF n = 0 THEN <<>>
                     ELSE Repeat((CHOOSE m \in rows : TRUE).path, n)
         IN  here \o joinedPaths(M, J, classID, hidden, i + 1)

groupRows(M, Cl, J, className, hidden) ==
    LET ks == {k \in Cl : k.class = className}
    IN  IF ks = {} THEN <<>>
        ELSE joinedPaths(M, J, (CHOOSE k \in ks : TRUE).classID, hidden, 1)

\* groupByClass(conn, hidden): the dict, a function from the labels that
\* have a joined row to the tuple split from the concatenated paths
groupByClass(M, Cl, J, hidden) ==
    LET keys == {c \in Labels : groupRows(M, Cl, J, c, hidden) # <<>>}
    IN  [c \in keys |-> split(GROUP_CONCAT(groupRows(M, Cl, J, c, hidden)))]

\* the loop of tupleByClass over the keys of the dict, in row order
RECURSIVE tupleLoop(_, _, _)
tupleLoop(groups, classes, i) ==
    IF i > Len(LabelOrder) THEN <<>>
    ELSE LET class_ == LabelOrder[i]
             part == IF class_ \in DOMAIN groups /\ class_ \in classes
                     THEN groups[class_] ELSE <<>>
         IN  part \o tupleLoop(groups, classes, i + 1)

\* tupleByClass without the test `class_ in classes`
tupleByClass_noFilter(M, Cl, J, classes, hidden) ==
    tupleLoop(groupByClass(M, Cl, J, hidden), Labels, 1)

tupleByClass(M, Cl, J, classes, hidden) ==
    tupleLoop(groupByClass(M, Cl, J, hidden), classes, 1)

\* ------------------------------------------------------ mutation tier
\* toggleVisibility whose UPDATE lost its WHERE clause
toggleVisibility_all(M, paths, hidden) ==
    {[m EXCEPT !.hidden = hidden] : m \in M}

\* UPDATE MEDIA SET hidden=? WHERE path IN (...)
toggleVisibility(M, paths, hidden) ==
    {IF m.path \in Range(paths) THEN [m EXCEPT !.hidden = hidden] ELSE m : m \in M}

hideByClass(M, Cl, J, classes) ==
    toggleVisibility(M, tupleByClass(M, Cl, J, classes, 0), 1)

unhideByClass(M, Cl, J, classes) ==
    toggleVisibility(M, tupleByClass(M, Cl, J, classes, 1), 0)

\* deleteFromDB that also deletes the CLASS rows no remaining item uses
deleteFromDB_pruneClass(M, Cl, J, files, paths, outcome) ==
    LET rows == {m \in M : m.path \notin Range(paths)}
        f == deleteFileRun(files, paths, outcome)
    IN  [M |-> rows,
         Cl |-> {k \in Cl : \E m \in rows : BagIn(<<m.imageID, k.classID>>, J)},
         J |-> J,
         fs |-> f.fs,
         deleteFile |-> CalledWith(paths),
         raised |-> f.raised]

\* deleteFromDB on a connection that cascades the DELETE to JUNCTION
deleteFromDB_cascade(M, Cl, J, files, paths, outcome) ==
    LET rows == {m \in M : m.path \notin Range(paths)}
        f == deleteFileRun(files, paths, outcome)
        gone == {e \in BagToSet(J) :
                    \E m \in M \ rows : m.imageID = e[1]}
    IN  [M |-> rows,
         Cl |-> Cl,
         J |-> J (-) [e \in gone |-> CopiesIn(e, J)],
         fs |-> f.fs,
         deleteFile |-> CalledWith(paths),
         raised |-> f.raised]

\* deleteFromDB that calls deleteFile before the DELETE, which an error of
\* deleteFile then skips
deleteFromDB_fileFirst(M, Cl, J, files, paths, outcome) ==
    LET f == deleteFileRun(files, paths, outcome)
    IN  [M |-> IF f.raised # "none" THEN M
               ELSE {m \in M : m.path \notin Range(paths)},
         Cl |-> Cl,
         J |-> J,
         fs |-> f.fs,
         deleteFile |-> CalledWith(paths),
         raised |-> f.raised]

\* DELETE FROM MEDIA WHERE path IN (...), then deleteFile(paths), whose
\* error, if any, is not caught; foreign keys are not enforced on the
\* connection, so JUNCTION and CLASS stay
deleteFromDB(M, Cl, J, files, paths, outcome) ==
    LET rows == {m \in M : m.path \notin Range(paths)}
        f == deleteFileRun(files, paths, outcome)
    IN  [M |-> rows,
         Cl |-> Cl,
         J |-> J,
         fs |-> f.fs,
         deleteFile |-> CalledWith(paths),
         raised |-> f.raised]

deleteByClass(M, Cl, J, files, classes, outcome) ==
    deleteFromDB(M, Cl, J, files, tupleByClass(M, Cl, J, classes, 0), outcome)

\* the loop of cleanDB over SELECT path FROM MEDIA, in rowid order
RECURSIVE stalePaths(_, _, _)
stalePaths(M, files, i) ==
    IF i >= lastrowid({m.imageID : m \in M}) THEN <<>>
    ELSE LET rows == {m \in M : m.imageID = i /\ ~pathExist(files, m.path)}
             here == IF rows = {} THEN <<>>
                     ELSE <<(CHOOSE m \in rows : TRUE).path>>
         IN  here \o stalePaths(M, files, i + 1)

\* cleanDB that stops collecting at the first stale path
cleanDB_firstOnly(M, Cl, J, files, outcome) ==
    LET paths == stalePaths(M, files, 1)
    IN  IF paths # <<>> THEN deleteFromDB(M, Cl, J, files, <<paths[1]>>, outcome)
        ELSE [M |-> M, Cl |-> Cl, J |-> J, fs |-> files,
              deleteFile |-> NotCalled, raised |-> "none"]

cleanDB(M, Cl, J, files, outcome) ==
    LET paths == stalePaths(M, files, 1)
    IN  IF paths # <<>> THEN deleteFromDB(M, Cl, J, files, paths, outcome)
        ELSE [M |-> M, Cl |-> Cl, J |-> J, fs |-> files,
              deleteFile |-> NotCalled, raised |-> "none"]

\* classLoop with the JUNCTION insert left inside the try block, so that
\* it is skipped when the label is already held
RECURSIVE classLoop_skipHeld(_, _, _, _, _)
classLoop_skipHeld(Cl, J, imageID, imgClass, i) ==
    IF i > Len(imgClass) THEN [Cl |-> Cl, J |-> J]
    ELSE LET ins == insertClass(Cl, imgClass[i])
         IN  classLoop_skipHeld(ins.Cl,
                 IF ins.error = "IntegrityError" THEN J
                 ELSE insertOrIgnore(J, <<imageID, ins.lastrowid>>),
                 imageID, imgClass, i + 1)

\* the loop over imgClass of insertIntoDB: INSERT INTO CLASS, on its
\* IntegrityError SELECT the held classID, then INSERT OR IGNORE the
\* JUNCTION row
RECURSIVE classLoop(_, _, _, _, _)
classLoop(Cl, J, imageID, imgClass, i) ==
    IF i > Len(imgClass) THEN [Cl |-> Cl, J |-> J]
    ELSE LET className == imgClass[i]
             ins == insertClass(Cl, className)
             classID == IF ins.error = "IntegrityError"
                        THEN (CHOOSE k \in Cl : k.class = className).classID
                        ELSE ins.lastrowid
         IN  classLoop(ins.Cl, insertOrIgnore(J, <<imageID, classID>>),
                       imageID, imgClass, i + 1)

\* insertIntoDB whose except clause also attaches the labels to the item
insertIntoDB_attach(M, Cl, J, file, imgClass, imgHash) ==
    LET ins == insertMedia(M, file, imgHash)
        imageID == IF ins.error = "IntegrityError"
                   THEN (CHOOSE m \in M : m.hash = imgHash).imageID
                   ELSE ins.lastrowid
        M2 == IF ins.error = "IntegrityError"
              THEN {IF m.hash = imgHash THEN [m EXCEPT !.path = file] ELSE m : m \in M}
              ELSE ins.M
        r == classLoop(Cl, J, imageID, imgClass, 1)
    IN  [M |-> M2, Cl |-> r.Cl, J |-> r.J, raised |-> "none"]

\* insertIntoDB: the INSERT INTO MEDIA and the loop, or, when the INSERT
\* raises IntegrityError, the UPDATE of the outer except clause
insertIntoDB(M, Cl, J, file, imgClass, imgHash) ==
    LET ins == insertMedia(M, file, imgHash)
    IN  IF ins.error = "IntegrityError"
        THEN [M |-> {IF m.hash = imgHash THEN [m EXCEPT !.path = file] ELSE m : m \in M},
              Cl |-> Cl, J |-> J, raised |-> "none"]
        ELSE LET r == classLoop(Cl, J, ins.lastrowid, imgClass, 1)
             IN  [M |-> ins.M, Cl |-> r.Cl, J |-> r.J, raised |-> "none"]

\* ------------------------------------------------------------- actions
Init ==
    /\ MEDIA = {}
    /\ CLASS = {}
    /\ JUNCTION = EmptyBag
    /\ fs = Paths

InsertIntoDB(file, imgClass, imgHash) ==
    LET r == insertIntoDB(MEDIA, CLASS, JUNCTION, file, imgClass, imgHash)
    IN  /\ \A m \in r.M : m.imageID <= MaxImageID
        /\ MEDIA' = r.M
        /\ CLASS' = r.Cl
        /\ JUNCTION' = r.J
        /\ UNCHANGED fs

ToggleVisibility(paths, hidden) ==
    /\ MEDIA' = toggleVisibility(MEDIA, paths, hidden)
    /\ UNCHANGED <<CLASS, JUNCTION, fs>>

HideByClass(classes) ==
    /\ MEDIA' = hideByClass(MEDIA, CLASS, JUNCTION, classes)
    /\ UNCHANGED <<CLASS, JUNCTION, fs>>

UnhideByClass(classes) ==
    /\ MEDIA' = unhideByClass(MEDIA, CLASS, JUNCTION, classes)
    /\ UNCHANGED <<CLASS, JUNCTION, fs>>

DeleteFromDB(paths, outcome) ==
    LET r == deleteFromDB(MEDIA, CLASS, JUNCTION, fs, paths, outcome)
    IN  /\ MEDIA' = r.M
        /\ CLASS' = r.Cl
        /\ JUNCTION' = r.J
        /\ fs' = r.fs

DeleteByClass(classes, outcome) ==
    LET r == deleteByClass(MEDIA, CLASS, JUNCTION, fs, classes, outcome)
    IN  /\ MEDIA' = r.M
        /\ CLASS' = r.Cl
        /\ JUNCTION' = r.J
        /\ fs' = r.fs

CleanDB(outcome) ==
    LET r == cleanDB(MEDIA, CLASS, JUNCTION, fs, outcome)
    IN  /\ MEDIA' = r.M
        /\ CLASS' = r.Cl
        /\ JUNCTION' = r.J
        /\ fs' = r.fs

\* the environment: a file appears on, or vanishes from, the filesystem
FileChange(path) ==
    /\ fs' = IF path \in fs THEN fs \ {path} ELSE fs \cup {path}
    /\ UNCHANGED <<MEDIA, CLASS, JUNCTION>>

Next ==
    \/ \E file \in Paths, imgClass \in ClassLists, imgHash \in Hashes :
           InsertIntoDB(file, imgClass, imgHash)
    \/ \E paths \in PathTuples, hidden \in Visibility :
           ToggleVisibility(paths, hidden)
    \/ \E classes \in SUBSET Labels : HideByClass(classes)
    \/ \E classes \in SUBSET Labels : UnhideByClass(classes)
    \/ \E paths \in PathTuples, outcome \in FileOutcomes :
           DeleteFromDB(paths, outcome)
    \/ \E classes \in SUBSET Labels, outcome \in FileOutcomes :
           DeleteByClass(classes, outcome)
    \/ \E outcome \in FileOutcomes : CleanDB(outcome)
    \/ \E path \in Paths : FileChange(path)

Spec == Init /\ [][Next]_vars

\* ------------------------------------------------------------- claims
\* item m is associated with label c through JUNCTION
Linked(M, Cl, J, m, c) ==
    \E k \in Cl : k.class = c /\ BagIn(<<m.imageID, k.classID>>, J)

LinkedToAny(M, Cl, J, m, classes) == \E c \in classes : Linked(M, Cl, J, m, c)

RECURSIVE SumCopies(_, _)
SumCopies(S, J) ==
    IF S = {} THEN 0
    ELSE LET e == CHOOSE x \in S : TRUE
         IN  CopiesIn(e, J) + SumCopies(S \ {e}, J)

\* the number of JUNCTION rows that point at a CLASS row of label c
JunctionRows(Cl, J, c) ==
    SumCopies({e \in BagToSet(J) : \E k \in Cl : k.class = c /\ k.classID = e[2]}, J)

\* C1: insertIntoDB of a held hash raises nothing, sets the path of the item
\* of that hash to the given file and changes nothing else: its imageID, its
\* hidden flag, every other MEDIA row, CLASS and JUNCTION stay as they were.
C1_HeldHashUpdatesPathOnly ==
    \A file \in Paths, imgClass \in ClassLists, imgHash \in Hashes :
        hashExist(MEDIA, imgHash) =>
            LET r == insertIntoDB(MEDIA, CLASS, JUNCTION, file, imgClass, imgHash)
            IN  /\ r.raised = "none"
                /\ r.Cl = CLASS
                /\ r.J = JUNCTION
                /\ Cardinality(r.M) = Cardinality(MEDIA)
                /\ \A m \in MEDIA :
                       IF m.hash = imgHash
                       THEN [imageID |-> m.imageID, hash |-> m.hash,
                             path |-> file, hidden |-> m.hidden] \in r.M
                       ELSE m \in r.M

\* a hidden, labelled item is re-inserted under another path with a label
\* that CLASS does not hold yet
C1_Witness ==
    \E m \in MEDIA, file \in Paths :
        /\ m.hidden = 1
        /\ file # m.path
        /\ Linked(MEDIA, CLASS, JUNCTION, m, "cat")
        /\ \A k \in CLASS : k.class # "dog"
        /\ Cardinality(MEDIA) = 2
        /\ LET r == insertIntoDB(MEDIA, CLASS, JUNCTION, file, <<"dog">>, m.hash)
           IN  m \notin r.M /\ [m EXCEPT !.path = file] \in r.M

\* C2: no two MEDIA rows hold the same hash, in every reachable state.
C2_HashUnique ==
    \A m1, m2 \in MEDIA : m1.hash = m2.hash => m1 = m2

\* two items are catalogued, under the same path, and either hash has been
\* inserted again since
C2_Witness ==
    \E m1, m2 \in MEDIA :
        /\ m1.imageID = 1 /\ m2.imageID = 2
        /\ m1.hash # m2.hash
        /\ m1.path = m2.path
        /\ m1.hidden = 1 /\ m2.hidden = 0

\* C3: CLASS holds at most one row per label, and n inserts of distinct
\* unseen hashes that all carry a label c no JUNCTION row points at yet
\* raise nothing and leave exactly one CLASS row for c and exactly n
\* JUNCTION rows pointing at it (n = 1 and n = 2).
C3_ClassCreatedOnceAndShared ==
    /\ \A k1, k2 \in CLASS : k1.class = k2.class => k1 = k2
    /\ \A c \in Labels, h1 \in Hashes :
         (~hashExist(MEDIA, h1) /\ JunctionRows(CLASS, JUNCTION, c) = 0) =>
           \A f1 \in Paths, L1 \in ClassLists :
             c \in Range(L1) =>
               LET r1 == insertIntoDB(MEDIA, CLASS, JUNCTION, f1, L1, h1)
               IN  /\ r1.raised = "none"
                   /\ Cardinality({k \in r1.Cl : k.class = c}) = 1
                   /\ JunctionRows(r1.Cl, r1.J, c) = 1
    /\ \A c \in Labels, h1, h2 \in Hashes :
         (h1 # h2 /\ ~hashExist(MEDIA, h1) /\ ~hashExist(MEDIA, h2)
                  /\ JunctionRows(CLASS, JUNCTION, c) = 0) =>
           \A f1, f2 \in Paths, L1, L2 \in ClassLists :
             (c \in Range(L1) /\ c \in Range(L2)) =>
               LET r1 == insertIntoDB(MEDIA, CLASS, JUNCTION, f1, L1, h1)
                   r2 == insertIntoDB(r1.M, r1.Cl, r1.J, f2, L2, h2)
               IN  /\ r1.raised = "none" /\ r2.raised = "none"
                   /\ Cardinality({k \in r2.Cl : k.class = c}) = 1
                   /\ JunctionRows(r2.Cl, r2.J, c) = 2

\* two catalogued items share the one CLASS row of "cat"
C3_Witness ==
    /\ Cardinality(MEDIA) = 2
    /\ Cardinality({k \in CLASS : k.class = "cat"}) = 1
    /\ \A m \in MEDIA : Linked(MEDIA, CLASS, JUNCTION, m, "cat")
    /\ JunctionRows(CLASS, JUNCTION, "cat") = 2
    /\ Cardinality(CLASS) = 2

\* C4: when every item associated with a label of C is visible,
\* hideByClass(C) followed by unhideByClass(C) leaves every MEDIA row with
\* the hidden flag it had.
C4_HideUnhideRestores ==
    \A classes \in SUBSET Labels :
        (\A m \in MEDIA :
            LinkedToAny(MEDIA, CLASS, JUNCTION, m, classes) => m.hidden = 0) =>
          LET M1 == hideByClass(MEDIA, CLASS, JUNCTION, classes)
              M2 == unhideByClass(M1, CLASS, JUNCTION, classes)
          IN  \A m \in MEDIA :
                  \E m2 \in M2 : m2.imageID = m.imageID /\ m2.hidden = m.hidden

\* C5: after deleteByClass(C) no MEDIA row associated with a label of C is
\* left, hidden or visible.
C5_DeleteByClassAnyVisibility ==
    \A classes \in SUBSET Labels, outcome \in FileOutcomes :
        LET r == deleteByClass(MEDIA, CLASS, JUNCTION, fs, classes, outcome)
        IN  \A m \in r.M : ~LinkedToAny(r.M, r.Cl, r.J, m, classes)

\* C6: cleanDB leaves exactly the MEDIA rows whose path exists, unchanged,
\* and when every catalogued path exists it changes no relation, removes no
\* file, does not call deleteFile and raises nothing; this whatever a
\* call of deleteFile does.
C6_CleanRemovesExactlyStale ==
    \A outcome \in FileOutcomes :
        LET r == cleanDB(MEDIA, CLASS, JUNCTION, fs, outcome)
        IN  /\ r.M = {m \in MEDIA : pathExist(fs, m.path)}
            /\ (\A m \in MEDIA : pathExist(fs, m.path)) =>
                   /\ r.M = MEDIA /\ r.Cl = CLASS /\ r.J = JUNCTION
                   /\ r.fs = fs
                   /\ ~r.deleteFile.called
                   /\ r.raised = "none"

\* one catalogued path exists and the other does not: cleanDB removes the
\* second and keeps the first
C6_Witness ==
    \E m1, m2 \in MEDIA :
        /\ pathExist(fs, m1.path) /\ ~pathExist(fs, m2.path)
        /\ cleanDB(MEDIA, CLASS, JUNCTION, fs, "ok").M = {m1}
        /\ cleanDB(MEDIA, CLASS, JUNCTION, fs, "ok").deleteFile.called

\* C7: groupByClass(v) has label c as a key exactly when an item with
\* hidden = v is linked to c, and the values under c are, as a set, the
\* paths of exactly those items.
C7_GroupByClassExact ==
    \A v \in Visibility, c \in Labels :
        LET g == groupByClass(MEDIA, CLASS, JUNCTION, v)
            members == {m \in MEDIA : m.hidden = v
                                      /\ Linked(MEDIA, CLASS, JUNCTION, m, c)}
        IN  /\ c \in DOMAIN g <=> members # {}
            /\ c \in DOMAIN g => Range(g[c]) = {m.path : m \in members}

\* C8: tupleByClass(C, v) holds each path at most once, and its members are
\* exactly the paths of the items with hidden = v linked to a label of C.
C8_TupleByClassDeduplicated ==
    \A classes \in SUBSET Labels, v \in Visibility :
        LET t == tupleByClass(MEDIA, CLASS, JUNCTION, classes, v)
            members == {m \in MEDIA : m.hidden = v
                            /\ LinkedToAny(MEDIA, CLASS, JUNCTION, m, classes)}
        IN  /\ \A i, j \in 1..Len(t) : t[i] = t[j] => i = j
            /\ Range(t) = {m.path : m \in members}

\* C9: tupleByClass(C, v) is the empty sequence whenever no item with
\* hidden = v is linked to a label of C: a label without a CLASS row, a
\* label whose items were all deleted, or no label at all.
C9_TupleByClassEmpty ==
    \A classes \in SUBSET Labels, v \in Visibility :
        (\A m \in MEDIA :
            m.hidden = v => ~LinkedToAny(MEDIA, CLASS, JUNCTION, m, classes)) =>
          tupleByClass(MEDIA, CLASS, JUNCTION, classes, v) = <<>>

\* "cat" has a CLASS row and a JUNCTION row but its item was deleted, "dog"
\* has a visible item: the first resolves to nothing, the second does not
C9_Witness ==
    /\ JunctionRows(CLASS, JUNCTION, "cat") > 0
    /\ \A m \in MEDIA : ~Linked(MEDIA, CLASS, JUNCTION, m, "cat")
    /\ \E m \in MEDIA : m.hidden = 0 /\ Linked(MEDIA, CLASS, JUNCTION, m, "dog")
    /\ tupleByClass(MEDIA, CLASS, JUNCTION, {"cat"}, 0) = <<>>
    /\ tupleByClass(MEDIA, CLASS, JUNCTION, {"dog"}, 0) # <<>>

\* C10: deleteFromDB with a path p no MEDIA row holds raises nothing, changes
\* no row on account of p and removes no file on account of p (deleteFile
\* doing its work).
C10_AbsentPathIsNoOp ==
    \A paths \in PathTuples :
        \A p \in Range(paths) :
            (\A m \in MEDIA : m.path # p) =>
              LET r == deleteFromDB(MEDIA, CLASS, JUNCTION, fs, paths, "ok")
                  r0 == deleteFromDB(MEDIA, CLASS, JUNCTION, fs,
                                     SelectSeq(paths, LAMBDA q : q # p), "ok")
              IN  /\ r.raised = "none"
                  /\ r.M = r0.M /\ r.Cl = CLASS /\ r.J = JUNCTION
                  /\ pathExist(fs, p) => pathExist(r.fs, p)

\* C11: deleteByClass(C) hands to deleteFile exactly the paths of the MEDIA
\* rows it deletes, and leaves every MEDIA row with another path as it was.
C11_DeleteByClassFilesMatchRows ==
    \A classes \in SUBSET Labels, outcome \in FileOutcomes :
        LET r == deleteByClass(MEDIA, CLASS, JUNCTION, fs, classes, outcome)
        IN  /\ r.deleteFile.called
            /\ Range(r.deleteFile.paths) = {m.path : m \in MEDIA \ r.M}
            /\ \A m \in MEDIA : m.path \notin Range(r.deleteFile.paths) => m \in r.M

\* C12: a toggleVisibility(paths, v) step sets hidden = v on exactly the
\* MEDIA rows whose path is in paths, keeps every other hidden flag and every
\* imageID, hash and path, adds and removes no MEDIA row and leaves CLASS,
\* JUNCTION and the files alone, also for paths no row holds.
C12_ToggleExactlyNamedPaths ==
    [][\A paths \in PathTuples, hidden \in Visibility :
          ToggleVisibility(paths, hidden) =>
              /\ Cardinality(MEDIA') = Cardinality(MEDIA)
              /\ \A m \in MEDIA :
                     [imageID |-> m.imageID, hash |-> m.hash, path |-> m.path,
                      hidden |-> IF \E i \in 1..Len(paths) : paths[i] = m.path
                                 THEN hidden ELSE m.hidden] \in MEDIA'
              /\ CLASS' = CLASS
              /\ JUNCTION' = JUNCTION
              /\ fs' = fs]_vars

\* two items under different paths, one hidden and one visible, and a
\* toggle of the hidden one's path alone makes it visible again
C12_Witness ==
    \E m1, m2 \in MEDIA :
        /\ m1.path # m2.path
        /\ m1.hidden = 1 /\ m2.hidden = 0
        /\ toggleVisibility(MEDIA, <<m1.path>>, 0) = {[m1 EXCEPT !.hidden = 0], m2}

\* C13: hideByClass(C) changes the hidden flag of exactly the visible items
\* linked to a label of C, unhideByClass(C) of exactly the hidden ones; an
\* item linked to no label of C keeps its flag.
C13_HideByClassExactlyMembers ==
    \A classes \in SUBSET Labels :
        LET M1 == hideByClass(MEDIA, CLASS, JUNCTION, classes)
            M0 == unhideByClass(MEDIA, CLASS, JUNCTION, classes)
        IN  \A m \in MEDIA :
              /\ [m EXCEPT !.hidden = 1 - m.hidden] \in M1 <=>
                   (m.hidden = 0 /\ LinkedToAny(MEDIA, CLASS, JUNCTION, m, classes))
              /\ [m EXCEPT !.hidden = 1 - m.hidden] \in M0 <=>
                   (m.hidden = 1 /\ LinkedToAny(MEDIA, CLASS, JUNCTION, m, classes))

\* C14: JUNCTION holds no (imageID, classID) pair twice, and insertIntoDB
\* of an unseen hash, also with a label list that repeats a label, raises
\* nothing and leaves one association of the new item per label.
C14_JunctionPairOnce ==
    /\ \A e \in BagToSet(JUNCTION) : CopiesIn(e, JUNCTION) = 1
    /\ \A file \in Paths, imgClass \in ClassLists, imgHash \in Hashes :
         ~hashExist(MEDIA, imgHash) =>
           LET r == insertIntoDB(MEDIA, CLASS, JUNCTION, file, imgClass, imgHash)
               new == CHOOSE m \in r.M : m.hash = imgHash
           IN  /\ r.raised = "none"
               /\ \A e \in BagToSet(r.J) : CopiesIn(e, r.J) = 1
               /\ \A c \in Range(imgClass) :
                      \E k \in r.Cl : /\ k.class = c
                                      /\ CopiesIn(<<new.imageID, k.classID>>, r.J) = 1

\* "cat" is in use already, and an unseen hash inserted with the list
\* ("cat", "cat") gets one new association
C14_Witness ==
    /\ \E m \in MEDIA : Linked(MEDIA, CLASS, JUNCTION, m, "cat")
    /\ \E imgHash \in Hashes :
         /\ ~hashExist(MEDIA, imgHash)
         /\ LET r == insertIntoDB(MEDIA, CLASS, JUNCTION, PathA,
                                  <<"cat", "cat">>, imgHash)
            IN  /\ r.Cl = CLASS
                /\ BagCardinality(r.J) = BagCardinality(JUNCTION) + 1

\* C15: a CLASS row, once it exists, exists unchanged in every later state.
C15_ClassRowsStay ==
    [][CLASS \subseteq CLASS']_vars

\* both CLASS rows are there, JUNCTION rows point at them, and every item
\* has been removed
C15_Witness ==
    /\ MEDIA = {}
    /\ Cardinality(CLASS) = 2
    /\ JunctionRows(CLASS, JUNCTION, "cat") > 0
    /\ JunctionRows(CLASS, JUNCTION, "dog") > 0

\* C16: deleteFromDB, deleteByClass and cleanDB leave JUNCTION as it was:
\* the rows of an item they remove are still there and point at an imageID
\* MEDIA no longer holds.
C16_DeleteKeepsJunction ==
    \A outcome \in FileOutcomes :
        LET results ==
              {deleteFromDB(MEDIA, CLASS, JUNCTION, fs, paths, outcome) :
                   paths \in PathTuples}
              \cup {deleteByClass(MEDIA, CLASS, JUNCTION, fs, classes, outcome) :
                   classes \in SUBSET Labels}
              \cup {cleanDB(MEDIA, CLASS, JUNCTION, fs, outcome)}
        IN  \A r \in results :
              /\ r.J = JUNCTION
              /\ \A m \in MEDIA \ r.M :
                   \A e \in BagToSet(JUNCTION) :
                       e[1] = m.imageID =>
                           /\ BagIn(e, r.J)
                           /\ \A n \in r.M : n.imageID # e[1]

\* a JUNCTION row points at an imageID that MEDIA does not hold, next to an
\* item that is still catalogued
C16_Witness ==
    /\ MEDIA # {}
    /\ \E e \in BagToSet(JUNCTION) : \A m \in MEDIA : m.imageID # e[1]

\* C17: in deleteFromDB the MEDIA rows go before deleteFile is called: when
\* deleteFile fails, its error, if it raises one, reaches the caller, the
\* rows of the given paths are gone all the same, and the files are still
\* on disk under paths the catalog no longer lists.
C17_DeleteNotTransactional ==
    \A paths \in PathTuples, outcome \in FileOutcomes \ {"ok"} :
        LET r == deleteFromDB(MEDIA, CLASS, JUNCTION, fs, paths, outcome)
        IN  /\ r.deleteFile = CalledWith(paths)
            /\ r.raised = deleteFileRun(fs, paths, outcome).raised
            /\ \A m \in MEDIA :
                   IF \E i \in 1..Len(paths) : paths[i] = m.path
                   THEN m \notin r.M ELSE m \in r.M
            /\ r.M \subseteq MEDIA
            /\ \A i \in 1..Len(paths) :
                   pathExist(fs, paths[i]) =>
                       /\ pathExist(r.fs, paths[i])
                       /\ \A m \in r.M : m.path # paths[i]

\* an item whose file exists is deleted while deleteFile raises: the row is
\* gone, the error is the caller's, the file is still there
C17_Witness ==
    \E m \in MEDIA :
        /\ pathExist(fs, m.path)
        /\ LET r == deleteFromDB(MEDIA, CLASS, JUNCTION, fs, <<m.path>>, "error")
           IN  /\ r.raised = "OSError"
               /\ m \notin r.M
               /\ r.M # {}
               /\ pathExist(r.fs, m.path)

\* C18: after insertIntoDB of an unseen hash with label list L, the labels
\* joined to the new item through JUNCTION are exactly the labels of L, also
\* in states that earlier deletions left JUNCTION rows in.
C18_NewItemCarriesItsLabels ==
    \A file \in Paths, imgClass \in ClassLists, imgHash \in Hashes :
        ~hashExist(MEDIA, imgHash) =>
          LET r == insertIntoDB(MEDIA, CLASS, JUNCTION, file, imgClass, imgHash)
              new == CHOOSE m \in r.M : m.hash = imgHash
          IN  {c \in Labels : Linked(r.M, r.Cl, r.J, new, c)} = Range(imgClass)
====
